---- MODULE Spec2Model ----
(***************************************************************************)
(* Dex thin client, Tauri backend (apps/client/src-tauri/src/lib.rs).      *)
(*                                                                         *)
(* The model covers the three credential commands (save_auth_key,          *)
(* get_auth_key, delete_auth_key) over the OS keychain entry               *)
(* ("dex", "auth-key"), both cfg variants (desktop keyring / mobile stub), *)
(* the tray set up by setup_tray with its two event handlers, and the      *)
(* start-up sequence of run().                                             *)
(*                                                                         *)
(* The keychain, the window manager and the user are the environment:      *)
(* every call into them may fail, and windows come and go on their own.    *)
(***************************************************************************)
EXTENDS Naturals, Sequences, FiniteSets, TLC

VARIABLES
    platform,   \* "desktop" | "mobile": the cfg(target_os) the build was made for
    phase,      \* "starting" | "running" | "aborted" | "exited"
    boot,       \* what start-up met: the failures of setup_tray and of the builder
    exitCode,   \* <<>> while the process lives, <<c>> once app.exit(c) ran
    tray,       \* TRUE once TrayIconBuilder::build succeeded
    store,      \* the OS secret store: (service, user) -> password
    pending,    \* commands invoked by the UI and not yet run: id -> [op, key]
    nCalls,     \* number of commands invoked so far
    hist,       \* completed commands in the order they ran, with what each returned
    raced,      \* TRUE once a command ran while one invoked before it was pending
    win,        \* the webview window labelled "main", if any
    winGen,     \* number of "main" windows created so far
    tick,       \* flips each time a tray / menu event is delivered
    lastEvent   \* the last event delivered and what its handler asked for

vars == <<platform, phase, boot, exitCode, tray, store, pending, nCalls, hist,
          raced, win, winGen, tick, lastEvent>>

----------------------------------------------------------------------------
(* Bounds of the model *)

MaxCalls == 3
NumKeys == 2
MaxWindows == 2

KeyTexts == <<"", "k1", "k2", "k3", "k4">>

Keys == {KeyTexts[i] : i \in 1..(IF NumKeys < Len(KeyTexts) THEN NumKeys ELSE Len(KeyTexts))}

----------------------------------------------------------------------------
(* Fixed identifiers *)

SERVICE == "dex"
USER == "auth-key"
MAIN == "main"
QUIT == "quit"
SHOW == "show"
ExitCode == 0

IsMobile == platform = "mobile"

----------------------------------------------------------------------------
(* Results handed back over the command bridge *)

OkUnit == [tag |-> "Ok", some |-> FALSE, text |-> ""]
OkNone == [tag |-> "Ok", some |-> FALSE, text |-> ""]
OkSome(v) == [tag |-> "Ok", some |-> TRUE, text |-> v]
Err(msg) == [tag |-> "Err", some |-> FALSE, text |-> msg]

(* keyring::Error as Display renders it (e.to_string()) *)
to_string(e) ==
    CASE e = "NoEntry" -> "No matching entry found in secure storage"
      [] e = "NoStorageAccess" -> "Couldn't access platform secure storage"
      [] e = "PlatformFailure" -> "Platform secure storage failure"
      [] OTHER -> "keyring error"

----------------------------------------------------------------------------
(* The keyring crate over the OS secret store.  A fault is the failure the  *)
(* platform reports for this one call, "None" when it reports none.         *)

OpenFaults == {"None", "NoStorageAccess"}
OpFaults == {"None", "PlatformFailure"}

EmptyStore == [i \in {} |-> ""]

EntryNew(service, user, fault) ==
    IF fault # "None"
    THEN [ok |-> FALSE, err |-> fault, entry |-> <<>>]
    ELSE [ok |-> TRUE, err |-> "None", entry |-> <<service, user>>]

SetPasswordKeepFirst(st, entry, password, fault) ==
    IF fault # "None"
    THEN [ok |-> FALSE, err |-> fault, st |-> st]
    ELSE [ok |-> TRUE, err |-> "None",
          st |-> [i \in DOMAIN st \cup {entry} |->
                     IF i \in DOMAIN st THEN st[i] ELSE password]]

SetPassword(st, entry, password, fault) ==
    IF fault # "None"
    THEN [ok |-> FALSE, err |-> fault, st |-> st]
    ELSE [ok |-> TRUE, err |-> "None",
          st |-> [i \in DOMAIN st \cup {entry} |->
                     IF i = entry THEN password ELSE st[i]]]

GetPassword(st, entry, fault) ==
    IF fault # "None"
    THEN [ok |-> FALSE, err |-> fault, val |-> ""]
    ELSE IF entry \notin DOMAIN st
    THEN [ok |-> FALSE, err |-> "NoEntry", val |-> ""]
    ELSE [ok |-> TRUE, err |-> "None", val |-> st[entry]]

DeleteCredential(st, entry, fault) ==
    IF fault # "None"
    THEN [ok |-> FALSE, err |-> fault, st |-> st]
    ELSE IF entry \notin DOMAIN st
    THEN [ok |-> FALSE, err |-> "NoEntry", st |-> st]
    ELSE [ok |-> TRUE, err |-> "None",
          st |-> [i \in DOMAIN st \ {entry} |-> st[i]]]

----------------------------------------------------------------------------
(* The three commands.  Each yields the result returned to the UI and the  *)
(* store afterwards.                                                        *)

SaveAuthKeyMobilePersists(st, key) ==
    [res |-> OkUnit, st |-> [i \in {<<SERVICE, USER>>} |-> key]]

SaveAuthKeyMobile(st, key) ==
    [res |-> OkUnit, st |-> st]

SaveAuthKeyNoPersist(st, key, fo, fp) ==
    [res |-> OkUnit, st |-> st]

SaveAuthKeyPerKey(st, key, fo, fp) ==
    LET e == EntryNew(SERVICE, key, fo) IN
    IF ~e.ok THEN [res |-> Err(to_string(e.err)), st |-> st]
    ELSE LET r == SetPassword(st, e.entry, key, fp) IN
         IF ~r.ok THEN [res |-> Err(to_string(r.err)), st |-> st]
         ELSE [res |-> OkUnit, st |-> r.st]

SaveAuthKeyDesktop(st, key, fo, fp) ==
    LET e == EntryNew(SERVICE, USER, fo) IN
    IF ~e.ok THEN [res |-> Err(to_string(e.err)), st |-> st]
    ELSE LET r == SetPassword(st, e.entry, key, fp) IN
         IF ~r.ok THEN [res |-> Err(to_string(r.err)), st |-> r.st]
         ELSE [res |-> OkUnit, st |-> r.st]

save_auth_key(st, key, fo, fp) ==
    IF IsMobile THEN SaveAuthKeyMobile(st, key)
    ELSE SaveAuthKeyDesktop(st, key, fo, fp)

GetAuthKeyMobile(st) ==
    [res |-> OkNone, st |-> st]

GetAuthKeySwallow(st, fo, fp) ==
    LET e == EntryNew(SERVICE, USER, fo) IN
    IF ~e.ok THEN [res |-> Err(to_string(e.err)), st |-> st]
    ELSE LET r == GetPassword(st, e.entry, fp) IN
         IF r.ok THEN [res |-> OkSome(r.val), st |-> st]
         ELSE [res |-> OkNone, st |-> st]

GetAuthKeyDesktop(st, fo, fp) ==
    LET e == EntryNew(SERVICE, USER, fo) IN
    IF ~e.ok THEN [res |-> Err(to_string(e.err)), st |-> st]
    ELSE LET r == GetPassword(st, e.entry, fp) IN
         IF r.ok THEN [res |-> OkSome(r.val), st |-> st]
         ELSE IF r.err = "NoEntry" THEN [res |-> OkNone, st |-> st]
         ELSE [res |-> Err(to_string(r.err)), st |-> st]

get_auth_key(st, fo, fp) ==
    IF IsMobile THEN GetAuthKeyMobile(st)
    ELSE GetAuthKeyDesktop(st, fo, fp)

DeleteAuthKeyMobile(st) ==
    [res |-> OkUnit, st |-> st]

DeleteAuthKeyStrict(st, fo, fp) ==
    LET e == EntryNew(SERVICE, USER, fo) IN
    IF ~e.ok THEN [res |-> Err(to_string(e.err)), st |-> st]
    ELSE LET r == DeleteCredential(st, e.entry, fp) IN
         IF r.ok THEN [res |-> OkUnit, st |-> r.st]
         ELSE [res |-> Err(to_string(r.err)), st |-> r.st]

DeleteAuthKeyDesktop(st, fo, fp) ==
    LET e == EntryNew(SERVICE, USER, fo) IN
    IF ~e.ok THEN [res |-> Err(to_string(e.err)), st |-> st]
    ELSE LET r == DeleteCredential(st, e.entry, fp) IN
         IF r.ok THEN [res |-> OkUnit, st |-> r.st]
         ELSE IF r.err = "NoEntry" THEN [res |-> OkUnit, st |-> r.st]
         ELSE [res |-> Err(to_string(r.err)), st |-> r.st]

delete_auth_key(st, fo, fp) ==
    IF IsMobile THEN DeleteAuthKeyMobile(st)
    ELSE DeleteAuthKeyDesktop(st, fo, fp)

----------------------------------------------------------------------------
(* The command bridge: the UI invokes a command, the async runtime runs it. *)
(* Commands that overlap are pending together and run in any order; each   *)
(* makes one call into the secret store.                                    *)

AuthEntry == <<SERVICE, USER>>

EmptyPending == [i \in {} |-> [op |-> "", key |-> ""]]

Invoke(op, key) ==
    /\ phase = "running"
    /\ nCalls < MaxCalls
    /\ nCalls' = nCalls + 1
    /\ pending' = [i \in DOMAIN pending \cup {nCalls + 1} |->
                      IF i \in DOMAIN pending THEN pending[i]
                      ELSE [op |-> op, key |-> key]]
    /\ UNCHANGED <<platform, phase, boot, exitCode, tray, store, hist, raced,
                   win, winGen, tick, lastEvent>>

InvokeSave == \E key \in Keys : Invoke("save", key)
InvokeGet == Invoke("get", "")
InvokeDelete == Invoke("delete", "")

Complete(id, fo, fp, r) ==
    /\ store' = r.st
    /\ hist' = Append(hist, [prior |-> FALSE,
                             op |-> pending[id].op, key |-> pending[id].key,
                             fo |-> fo, fp |-> fp,
                             had |-> AuthEntry \in DOMAIN store,
                             res |-> r.res])
    /\ pending' = [i \in DOMAIN pending \ {id} |-> pending[i]]
    /\ raced' = (raced \/ \E older \in DOMAIN pending : older < id)
    /\ UNCHANGED <<platform, phase, boot, exitCode, tray, nCalls,
                   win, winGen, tick, lastEvent>>

(* The faults the platform reports during one command: none on the mobile   *)
(* stub, which never calls it; no store call after Entry::new failed.       *)
FaultPairs ==
    IF IsMobile THEN {<<"None", "None">>}
    ELSE {<<fo, fp>> \in OpenFaults \X OpFaults : fo # "None" => fp = "None"}

RunSave ==
    /\ phase = "running"
    /\ \E id \in DOMAIN pending, f \in FaultPairs :
          /\ pending[id].op = "save"
          /\ Complete(id, f[1], f[2],
                      save_auth_key(store, pending[id].key, f[1], f[2]))

RunGet ==
    /\ phase = "running"
    /\ \E id \in DOMAIN pending, f \in FaultPairs :
          /\ pending[id].op = "get"
          /\ Complete(id, f[1], f[2], get_auth_key(store, f[1], f[2]))

RunDelete ==
    /\ phase = "running"
    /\ \E id \in DOMAIN pending, f \in FaultPairs :
          /\ pending[id].op = "delete"
          /\ Complete(id, f[1], f[2], delete_auth_key(store, f[1], f[2]))

----------------------------------------------------------------------------
(* Windows.  The window labelled "main" is created, hidden and destroyed by *)
(* the framework and the user; a handle names one window instance.          *)

NoWindow == 0

NoWin == [exists |-> FALSE, id |-> NoWindow, visible |-> FALSE, focused |-> FALSE]

GetWebviewWindowCached(label) ==
    IF label = MAIN /\ winGen >= 1 THEN 1 ELSE NoWindow

get_webview_window(label) ==
    IF label = MAIN /\ win.exists THEN win.id ELSE NoWindow

WindowShow(w, handle, ok) ==
    IF w.exists /\ w.id = handle /\ ok THEN [w EXCEPT !.visible = TRUE] ELSE w

WindowSetFocus(w, handle, ok) ==
    IF w.exists /\ w.id = handle /\ ok THEN [w EXCEPT !.focused = TRUE] ELSE w

(* if let Some(window) = app.get_webview_window("main")                     *)
(*     { let _ = window.show(); let _ = window.set_focus(); }               *)
ShowMain(showOk, focusOk) ==
    LET handle == get_webview_window(MAIN) IN
    IF handle # NoWindow
    THEN [win |-> WindowSetFocus(WindowShow(win, handle, showOk), handle, focusOk),
          handle |-> handle, asked |-> <<"show", "set_focus">>,
          showOk |-> showOk, focusOk |-> focusOk]
    ELSE [win |-> win, handle |-> NoWindow, asked |-> <<>>,
          showOk |-> FALSE, focusOk |-> FALSE]

Untouched ==
    [win |-> win, handle |-> NoWindow, asked |-> <<>>,
     showOk |-> FALSE, focusOk |-> FALSE]

WindowCreate ==
    /\ phase \in {"starting", "running"}
    /\ ~win.exists
    /\ winGen < MaxWindows
    /\ winGen' = winGen + 1
    /\ \E v \in BOOLEAN :
          win' = [exists |-> TRUE, id |-> winGen + 1, visible |-> v, focused |-> v]
    /\ UNCHANGED <<platform, phase, boot, exitCode, tray, store, pending, nCalls,
                   hist, raced, tick, lastEvent>>

WindowHide ==
    /\ phase \in {"starting", "running"}
    /\ win.exists
    /\ win.visible \/ win.focused
    /\ \E v \in BOOLEAN :
          /\ v => win.visible
          /\ win' = [win EXCEPT !.visible = v, !.focused = FALSE]
    /\ UNCHANGED <<platform, phase, boot, exitCode, tray, store, pending, nCalls,
                   hist, raced, winGen, tick, lastEvent>>

WindowDestroy ==
    /\ phase \in {"starting", "running"}
    /\ win.exists
    /\ win' = NoWin
    /\ UNCHANGED <<platform, phase, boot, exitCode, tray, store, pending, nCalls,
                   hist, raced, winGen, tick, lastEvent>>

----------------------------------------------------------------------------
(* The tray's two handlers.  Each yields the process status and the window  *)
(* after the event, and what it asked of which window.                      *)

MenuIds == {QUIT, SHOW, "Quit", "about"}

MenuEv(id) == [src |-> "menu", id |-> id, kind |-> "", button |-> "", state |-> ""]

TrayEv(kind, button, state) ==
    [src |-> "tray", id |-> "", kind |-> kind, button |-> button, state |-> state]

NoEv == [src |-> "none", id |-> "", kind |-> "", button |-> "", state |-> ""]

TrayEvs ==
    {TrayEv("Click", b, s) : b \in {"Left", "Right"}, s \in {"Up", "Down"}}
        \cup {TrayEv("DoubleClick", "Left", "")}

Stay(w) == [phase |-> phase, exitCode |-> exitCode] @@ w

OnMenuEventUnwrap(id, showOk, focusOk) ==
    CASE id = QUIT -> [phase |-> "exited", exitCode |-> <<ExitCode>>] @@ Untouched
      [] id = SHOW ->
            IF get_webview_window(MAIN) = NoWindow
            THEN [phase |-> "aborted", exitCode |-> exitCode] @@ Untouched
            ELSE Stay(ShowMain(showOk, focusOk))
      [] OTHER -> Stay(Untouched)

OnMenuEventDefaultShows(id, showOk, focusOk) ==
    CASE id = QUIT -> [phase |-> "exited", exitCode |-> <<ExitCode>>] @@ Untouched
      [] OTHER -> Stay(ShowMain(showOk, focusOk))

on_menu_event(id, showOk, focusOk) ==
    CASE id = QUIT -> [phase |-> "exited", exitCode |-> <<ExitCode>>] @@ Untouched
      [] id = SHOW -> Stay(ShowMain(showOk, focusOk))
      [] OTHER -> Stay(Untouched)

on_tray_icon_event(ev, showOk, focusOk) ==
    IF ev.kind = "Click" /\ ev.button = "Left" /\ ev.state = "Up"
    THEN Stay(ShowMain(showOk, focusOk))
    ELSE Stay(Untouched)

Deliver(ev, r) ==
    /\ phase' = r.phase
    /\ exitCode' = r.exitCode
    /\ win' = r.win
    /\ lastEvent' = [ev |-> ev, handle |-> r.handle, asked |-> r.asked,
                     showOk |-> r.showOk, focusOk |-> r.focusOk]
    /\ tick' = ~tick
    /\ UNCHANGED <<platform, boot, tray, store, pending, nCalls, hist, raced, winGen>>

(* The outcomes of show() and set_focus(): only asked of a window found.    *)
Outcomes ==
    IF win.exists THEN BOOLEAN \X BOOLEAN ELSE {<<FALSE, FALSE>>}

MenuEvent ==
    /\ phase = "running"
    /\ tray
    /\ \E id \in MenuIds :
          \E r \in {on_menu_event(id, o[1], o[2]) : o \in Outcomes} :
              Deliver(MenuEv(id), r)

TrayIconEvent ==
    /\ phase = "running"
    /\ tray
    /\ \E ev \in TrayEvs :
          \E r \in {on_tray_icon_event(ev, o[1], o[2]) : o \in Outcomes} :
              Deliver(ev, r)

----------------------------------------------------------------------------
(* Start-up: run() builds the application; on desktop its setup hook calls  *)
(* setup_tray, whose steps fail at most at one place (f).                   *)

SetupFaults == {"None", "QuitItem", "ShowItem", "Menu", "NoIcon", "Build"}
BuilderFaults == {"None", "Runtime"}

setup_tray(f) ==
    CASE f \in {"QuitItem", "ShowItem", "Menu", "Build"} -> "Err"
      [] f = "NoIcon" -> "Panic"
      [] OTHER -> "Ok"

RunIgnoresSetup(f, g) ==
    IF g # "None" THEN [phase |-> "aborted", tray |-> FALSE]
    ELSE IF IsMobile THEN [phase |-> "running", tray |-> FALSE]
    ELSE [phase |-> "running", tray |-> setup_tray(f) = "Ok"]

run(f, g) ==
    IF g # "None" THEN [phase |-> "aborted", tray |-> FALSE]
    ELSE IF IsMobile THEN [phase |-> "running", tray |-> FALSE]
    ELSE IF setup_tray(f) = "Ok" THEN [phase |-> "running", tray |-> TRUE]
    ELSE [phase |-> "aborted", tray |-> FALSE]

(* setup_tray is compiled in, and so can fail, on desktop only; it is not  *)
(* reached when the builder failed before its setup hook.                  *)
BootFaults ==
    {b \in SetupFaults \X BuilderFaults :
        (IsMobile \/ b[2] # "None") => b[1] = "None"}

Run ==
    /\ phase = "starting"
    /\ \E b \in BootFaults :
          /\ boot' = [setup |-> b[1], builder |-> b[2]]
          /\ phase' = run(b[1], b[2]).phase
          /\ tray' = run(b[1], b[2]).tray
    /\ UNCHANGED <<platform, exitCode, store, pending, nCalls, hist, raced,
                   win, winGen, tick, lastEvent>>

----------------------------------------------------------------------------
(* The keychain outlives the process: on desktop it may hold the entry an   *)
(* earlier run's save_auth_key left.                                        *)

Earlier(key) ==
    [prior |-> TRUE, op |-> "save", key |-> key,
     fo |-> "None", fp |-> "None", had |-> FALSE, res |-> OkUnit]

Init ==
    /\ platform \in {"desktop", "mobile"}
    /\ phase = "starting"
    /\ boot = [setup |-> "None", builder |-> "None"]
    /\ exitCode = <<>>
    /\ tray = FALSE
    /\ \/ store = EmptyStore /\ hist = <<>>
       \/ /\ platform = "desktop"
          /\ \E key \in Keys :
                /\ store = [i \in {AuthEntry} |-> key]
                /\ hist = <<Earlier(key)>>
    /\ pending = EmptyPending
    /\ nCalls = 0
    /\ raced = FALSE
    /\ win = NoWin
    /\ winGen = 0
    /\ tick = FALSE
    /\ lastEvent = [ev |-> NoEv, handle |-> NoWindow, asked |-> <<>>,
                    showOk |-> FALSE, focusOk |-> FALSE]

NextKeychain ==
    \/ Run
    \/ InvokeSave
    \/ InvokeGet
    \/ InvokeDelete
    \/ RunSave
    \/ RunGet
    \/ RunDelete

NextTray ==
    \/ Run
    \/ WindowCreate
    \/ WindowHide
    \/ WindowDestroy
    \/ MenuEvent
    \/ TrayIconEvent

Next == NextKeychain \/ NextTray

(* The commands and the tray share no state but the process status, so the  *)
(* two halves are also explored apart, each from every initial state.       *)

Spec == Init /\ [][Next]_vars

SpecKeychain == Init /\ [][NextKeychain]_vars

SpecTray == Init /\ [][NextTray]_vars

----------------------------------------------------------------------------
(* Properties *)

Desktop == platform = "desktop"

(* The secret store reported no failure while command h ran *)
Clean(h) == h.fo = "None" /\ h.fp = "None"

Saved(h) == h.op = "save" /\ h.res.tag = "Ok"

Ran == 1..Len(hist)

(* C1: on desktop, a get_auth_key that runs right after a successful        *)
(* save_auth_key(v), with no other store operation in between and no store  *)
(* failure (C4's case), returns Some(v).                                    *)
C1_SaveThenGet ==
    Desktop =>
        \A i \in Ran \ {1} :
            (hist[i].op = "get" /\ Clean(hist[i]) /\ Saved(hist[i - 1]))
                => hist[i].res = OkSome(hist[i - 1].key)

C1_Witness ==
    /\ Desktop
    /\ \E i \in Ran \ {1} :
          /\ ~hist[i - 1].prior
          /\ Saved(hist[i - 1])
          /\ hist[i - 1].had
          /\ hist[i].op = "get"
          /\ hist[i].res = OkSome(hist[i - 1].key)

(* C2: on desktop, save_auth_key writes the one ("dex", "auth-key") entry:  *)
(* the store never holds another secret, and a get_auth_key that runs right *)
(* after two successful saves returns the second one's value.               *)
C2_Overwrite ==
    Desktop =>
        /\ DOMAIN store \subseteq {AuthEntry}
        /\ Cardinality(DOMAIN store) <= 1
        /\ \A i \in Ran \ {1, 2} :
              (hist[i].op = "get" /\ Clean(hist[i])
                    /\ Saved(hist[i - 1]) /\ Saved(hist[i - 2]))
                  => hist[i].res = OkSome(hist[i - 1].key)

C2_Witness ==
    /\ Desktop
    /\ \E i \in Ran \ {1, 2} :
          /\ ~hist[i - 2].prior
          /\ Saved(hist[i - 2])
          /\ Saved(hist[i - 1])
          /\ hist[i - 2].key # hist[i - 1].key
          /\ hist[i].op = "get"
          /\ hist[i].res = OkSome(hist[i - 1].key)

(* C3: delete_auth_key is idempotent: unless the store reports a failure it *)
(* succeeds, on an empty store and any number of times in a row, it leaves  *)
(* no entry, and a get_auth_key that runs right after it returns None.      *)
C3_DeleteIdempotent ==
    /\ \A i \in Ran :
          (hist[i].op = "delete" /\ Clean(hist[i])) => hist[i].res = OkUnit
    /\ \A i \in Ran \ {1} :
          (hist[i].op = "get" /\ Clean(hist[i])
                /\ hist[i - 1].op = "delete" /\ hist[i - 1].res.tag = "Ok")
              => hist[i].res = OkNone
    /\ (hist # <<>> /\ hist[Len(hist)].op = "delete"
            /\ hist[Len(hist)].res.tag = "Ok")
          => AuthEntry \notin DOMAIN store

C3_Witness ==
    /\ Desktop
    /\ \E i \in Ran \ {1, 2} :
          /\ hist[i - 2].op = "delete" /\ hist[i - 2].had
          /\ hist[i - 2].res = OkUnit
          /\ hist[i - 1].op = "delete" /\ ~hist[i - 1].had
          /\ hist[i - 1].res = OkUnit
          /\ hist[i].op = "get" /\ hist[i].res = OkNone

(* C4: on desktop a command returns an error exactly when the secret store  *)
(* reported a failure other than "no entry" (opening the entry included),   *)
(* and the error is a text; with no entry get_auth_key returns Ok(None) and *)
(* delete_auth_key returns Ok.                                              *)
C4_ErrorIffStoreFailure ==
    Desktop =>
        \A i \in Ran :
            /\ hist[i].res.tag = "Err" <=> ~Clean(hist[i])
            /\ hist[i].res.tag = "Err" =>
                  /\ hist[i].res.text # ""
                  /\ ~hist[i].res.some
            /\ (Clean(hist[i]) /\ ~hist[i].had /\ hist[i].op = "get")
                  => hist[i].res = OkNone
            /\ (Clean(hist[i]) /\ ~hist[i].had /\ hist[i].op = "delete")
                  => hist[i].res = OkUnit

C4_Witness ==
    /\ Desktop
    /\ \E i, j, k \in Ran :
          /\ hist[i].op = "get" /\ Clean(hist[i]) /\ ~hist[i].had
          /\ hist[i].res = OkNone
          /\ hist[j].op = "get" /\ hist[j].fp # "None" /\ hist[j].res.tag = "Err"
          /\ hist[k].op = "delete" /\ hist[k].fo # "None" /\ hist[k].res.tag = "Err"

(* C5: on the mobile stub every save_auth_key and delete_auth_key returns   *)
(* Ok and every get_auth_key returns Ok(None), whatever ran before, and     *)
(* nothing is retained.                                                     *)
C5_MobileStub ==
    IsMobile =>
        /\ store = EmptyStore
        /\ \A i \in Ran :
              /\ hist[i].op \in {"save", "delete"} => hist[i].res = OkUnit
              /\ hist[i].op = "get" => hist[i].res = OkNone

C5_Witness ==
    /\ IsMobile
    /\ \E i, j \in Ran :
          /\ i < j
          /\ hist[i].op = "save" /\ hist[i].key # "" /\ hist[i].res = OkUnit
          /\ hist[j].op = "get" /\ hist[j].res = OkNone

(* The store as the last write that took effect left it *)
Writes == {i \in Ran : hist[i].op \in {"save", "delete"} /\ hist[i].res.tag = "Ok"}

LastWrite == CHOOSE i \in Writes : \A j \in Writes : j <= i

LastWriterStore ==
    IF Writes = {} \/ hist[LastWrite].op = "delete"
    THEN EmptyStore
    ELSE [e \in {AuthEntry} |-> hist[LastWrite].key]

SaveKeys ==
    {hist[i].key : i \in {j \in Ran : hist[j].op = "save"}}
        \cup {pending[c].key : c \in {d \in DOMAIN pending : pending[d].op = "save"}}

(* C6: on desktop, with commands overlapping and run in any order: once     *)
(* every command has completed the store holds the value of the save that   *)
(* took effect last, or nothing if a delete took effect last; and every get *)
(* returned None or the whole value passed to some save.                    *)
C6_LastWriterWins ==
    Desktop =>
        /\ pending = EmptyPending => store = LastWriterStore
        /\ \A i \in Ran :
              (hist[i].op = "get" /\ hist[i].res.tag = "Ok")
                  => \/ hist[i].res = OkNone
                     \/ /\ hist[i].res.some
                        /\ hist[i].res.text \in SaveKeys

C6_Witness ==
    /\ Desktop
    /\ raced
    /\ pending = EmptyPending
    /\ nCalls = MaxCalls
    /\ \E i, j, k \in Ran :
          /\ i < j /\ j < k
          /\ Saved(hist[i]) /\ Saved(hist[j])
          /\ hist[i].key # hist[j].key
          /\ hist[k].op = "get"
          /\ hist[k].res = OkSome(hist[j].key)
          /\ store = [e \in {AuthEntry} |-> hist[j].key]

(* A step that delivers a tray or menu event *)
EventStep == tick' # tick

ShowEv(ev) ==
    \/ ev.src = "menu" /\ ev.id = "show"
    \/ ev.src = "tray" /\ ev.kind = "Click" /\ ev.button = "Left" /\ ev.state = "Up"

(* C7: the "quit" menu item ends the process with exit code 0; the "show"   *)
(* item and a left-button release on the tray icon ask the window labelled  *)
(* "main" to show and take focus; when there is no such window, or show or  *)
(* set_focus fails, nothing is raised and the application keeps running.    *)
C7_TrayEvents ==
    [][EventStep =>
        /\ (lastEvent'.ev.src = "menu" /\ lastEvent'.ev.id = "quit")
              => (phase' = "exited" /\ exitCode' = <<0>>)
        /\ ShowEv(lastEvent'.ev) =>
              /\ phase' = "running"
              /\ exitCode' = <<>>
              /\ IF win.exists
                 THEN /\ lastEvent'.asked = <<"show", "set_focus">>
                      /\ lastEvent'.handle = win.id
                      /\ win' = [win EXCEPT
                                   !.visible = @ \/ lastEvent'.showOk,
                                   !.focused = @ \/ lastEvent'.focusOk]
                 ELSE /\ lastEvent'.asked = <<>>
                      /\ win' = win
    ]_vars

C7_Witness ==
    /\ ShowEv(lastEvent.ev)
    /\ lastEvent.ev.src = "menu"
    /\ lastEvent.handle = NoWindow
    /\ ~win.exists
    /\ winGen > 0
    /\ phase = "running"

(* C8: a menu event whose id is neither "quit" nor "show" changes nothing:  *)
(* the window, the process status and the stored secret stay as they were,  *)
(* and nothing is asked of any window.                                      *)
C8_UnrecognizedMenuId ==
    [][(EventStep /\ lastEvent'.ev.src = "menu"
            /\ lastEvent'.ev.id \notin {"quit", "show"}) =>
        /\ UNCHANGED <<win, winGen, phase, exitCode, tray, store, pending, hist>>
        /\ lastEvent'.asked = <<>>
        /\ lastEvent'.handle = NoWindow
    ]_vars

C8_Witness ==
    /\ lastEvent.ev.src = "menu"
    /\ lastEvent.ev.id \notin {"quit", "show"}
    /\ win.exists /\ ~win.visible
    /\ AuthEntry \in DOMAIN store
    /\ phase = "running"

(* C9: on desktop, when setup_tray fails (an item, the menu or the tray     *)
(* icon cannot be built, or there is no default icon) start-up is aborted:  *)
(* the application is never running, no tray is installed, no command is    *)
(* served and no event is handled.                                          *)
C9_SetupFailureAborts ==
    (Desktop /\ boot.setup # "None") =>
        /\ phase = "aborted"
        /\ ~tray
        /\ nCalls = 0
        /\ pending = EmptyPending
        /\ \A i \in Ran : hist[i].prior
        /\ lastEvent.ev = NoEv

C9_Witness ==
    /\ Desktop
    /\ boot.setup = "NoIcon"
    /\ phase = "aborted"
    /\ AuthEntry \in DOMAIN store

(* C10: each "show" menu event and tray left-click looks the "main" window  *)
(* up anew: the handle it uses is the window that exists at that moment,    *)
(* whatever was created, destroyed or missing at earlier events, and that   *)
(* window is the one shown and focused.                                     *)
C10_FreshLookup ==
    [][(EventStep /\ ShowEv(lastEvent'.ev)) =>
        /\ lastEvent'.handle = (IF win.exists THEN win.id ELSE NoWindow)
        /\ (win.exists /\ lastEvent'.showOk /\ lastEvent'.focusOk) =>
              /\ win'.exists
              /\ win'.id = win.id
              /\ win'.visible
              /\ win'.focused
    ]_vars

C10_Witness ==
    /\ ShowEv(lastEvent.ev)
    /\ lastEvent.handle > 1
    /\ lastEvent.showOk /\ lastEvent.focusOk
    /\ win.exists
    /\ win.id = lastEvent.handle
    /\ win.visible /\ win.focused

====
